---- MODULE Spec2Model ----
(***************************************************************************)
(* Verification model of the bpsai-backend core:                           *)
(*   - the batch job controller (app/routes/document.py, app/job_utils.py, *)
(*     app/models.py BatchJob): PDF chunking job and per-document          *)
(*     reconstruction jobs;                                                *)
(*   - the credential rotation of GeminiService / EmbeddingService         *)
(*     (app/services.py);                                                  *)
(*   - the library functions of ingestion and retrieval, each as an        *)
(*     operator applied by one call action on args / ret: the sliding      *)
(*     window chunker and process_and_save_pdf (app/services.py),          *)
(*     build_context and rerank_with_dss (app/helpers.py), handle_feedback *)
(*     (app/routes/feedback.py), get_combined_relevant_results             *)
(*     (app/routes/chat.py), the edit of a fragment's text with its        *)
(*     embedding listeners (app/models.py, app/vector_db.py).              *)
(*     Float scores are integers scaled by                                 *)
(*     ScoreOne; the chunk size, overlap and buffer limit used by          *)
(*     process_and_save_pdf are scaled down with the page texts.           *)
(*                                                                         *)
(* Database semantics assumed (PostgreSQL, READ COMMITTED):                *)
(*   - SELECT ... FOR UPDATE holds the row lock until the session commits  *)
(*     or is removed, so everything a thread does between such a read and  *)
(*     its commit is one atomic step of the model;                         *)
(*   - a plain read followed later by an ORM commit is two steps: the      *)
(*     commit writes the attributes the code assigned, whatever the row    *)
(*     holds by then.                                                      *)
(*                                                                         *)
(* Time: the code reads the clock only to compare it with a stored         *)
(* timestamp, so the row keeps the AGE of last_updated in minutes (0 when  *)
(* just written, NoTime when NULL) and Tick lets it grow; an age beyond    *)
(* the timeout stays there.  started_at and completed_at are written but   *)
(* never read by the code modelled here and are left out of the row.       *)
(***************************************************************************)
EXTENDS Integers, Sequences, FiniteSets, TLC

(* ------------------------------ bounds --------------------------------- *)
NumRequests == 2
MaxWorkers == 2
MaxFiles == 1
MaxChunks == 1
MaxPages == 1
NumKeys == 3
NumCallers == 2
MaxCalls == 2
MaxReloads == 1
MaxTextLen == 5
MaxChunkSize == 4
MaxDocPages == 4
MaxItems == 3
MaxIds == 2
MaxResults == 2
MaxRuns == 3
PageChars == 5
DefaultChunkSize == 4
DefaultOverlap == 1
BufferLimit == 8

(* ------------------------- program constants --------------------------- *)
JOB_TIMEOUT_MINUTES == 30
QUOTA_RESET_HOURS == 24
retries_per_key == 2

NoTime == 0 - 1

JobStatus == {"IDLE", "RUNNING", "STOPPING", "COMPLETED", "FAILED"}

Requests == 1..NumRequests
Workers == 1..MaxWorkers

VARIABLES jobKind, job, req, resp, worker, pdf_files, unrecon,
          service, current_key_index, client, url, key_config, caller, out,
          calls, reloads,
          args, ret

jobVars == <<jobKind, job, req, resp, worker, pdf_files, unrecon>>

keyVars == <<service, current_key_index, client, url, key_config, caller, out,
            calls, reloads>>

libVars == <<args, ret>>

vars == <<jobVars, keyVars, libVars>>

(* ---------------------------- BatchJob row ----------------------------- *)
Msg(tag) == <<tag, 0, 0, 0>>

CountMsg(tag, ok, err, skip) == <<tag, ok, err, skip>>

\* no row for this job name yet
NoJob ==
  [exists |-> FALSE, status |-> "IDLE", total_items |-> 0, processed_items |-> 0,
   last_updated |-> NoTime,
   last_error |-> Msg("none")]

\* BatchJob(job_name=...) after INSERT: column defaults
NewJob ==
  [exists |-> TRUE, status |-> "IDLE", total_items |-> 0, processed_items |-> 0,
   last_updated |-> 0,
   last_error |-> Msg("none")]

get_progress(j) ==
  IF j.total_items = 0 THEN 100 ELSE (j.processed_items * 100) \div j.total_items

\* the ages the model tells apart: just written, exactly the timeout, beyond it
Ages == {0, JOB_TIMEOUT_MINUTES, JOB_TIMEOUT_MINUTES + 1}

is_stuck(j) ==
  IF j.status # "RUNNING" THEN FALSE
  ELSE IF j.last_updated = NoTime THEN FALSE
  ELSE j.last_updated > JOB_TIMEOUT_MINUTES

check_job_should_stop(j) ==
  IF j.exists THEN j.status = "STOPPING" ELSE TRUE

cleanup_job_state(j, status, msg) ==
  IF j.exists
  THEN [j EXCEPT !.status = status, !.last_error = msg]
  ELSE j

update_job_heartbeat(j, setCount, processed_count, setMsg, msg) ==
  IF j.exists
  THEN [j EXCEPT !.last_updated = 0,
                 !.processed_items = IF setCount THEN processed_count ELSE @,
                 !.last_error = IF setMsg THEN msg ELSE @]
  ELSE j

(* --------------------------- thread records ---------------------------- *)
\* an HTTP thread between two transactions of one request
IdleReq == [pc |-> "idle", seen |-> "none"]

\* the latest HTTP response (n alternates so that every response is a change)
NoResp == [n |-> 0, op |-> "none", result |-> "none", stuck |-> FALSE]

Respond(op, result, stuck) ==
  [n |-> 1 - resp.n, op |-> op, result |-> result, stuck |-> stuck]

NoWorker ==
  [pc |-> "none", i |-> 0, ok |-> 0, err |-> 0, skip |-> 0, n |-> 0,
   p |-> 0, pages |-> 0, todo |-> <<>>, cached |-> "IDLE", stale |-> FALSE]

SeenStatus(j) == IF j.exists THEN j.status ELSE "ABSENT"

FreeWorkers == {w \in Workers : worker[w].pc = "none"}

ActiveWorkers == {w \in Workers : worker[w].pc # "none"}

\* threading.Thread(...).start(): the new thread takes the first free slot
Spawned(w) ==
  /\ w \in FreeWorkers
  /\ \A v \in FreeWorkers : w <= v
  /\ worker' = [worker EXCEPT ![w] = [NoWorker EXCEPT !.pc = "spawned"]]

\* history: document.py 793-799 declares the job's worker dead without
\* touching the thread; stale records which threads were alive at that moment
DeclaredDead ==
  [w \in Workers |->
     IF worker[w].pc # "none" THEN [worker[w] EXCEPT !.stale = TRUE] ELSE worker[w]]

(* ------------------------------- Init ---------------------------------- *)
JobInit ==
  /\ jobKind \in {"chunking", "reconstruction"}
  /\ job = NoJob
  /\ req = [r \in Requests |-> IdleReq]
  /\ resp = NoResp
  /\ worker = [w \in Workers |-> NoWorker]
  /\ IF jobKind = "chunking"
     THEN pdf_files \in 0..MaxFiles /\ unrecon = {}
     ELSE pdf_files = 0 /\ unrecon \in SUBSET (1..MaxChunks)


\* time passes: the stored heartbeat gets older.  Only the chunking routes
\* read last_updated (document.py 789-807, 931-938); the reconstruction code
\* neither reads nor refreshes it.
Tick ==
  /\ jobKind = "chunking"
  /\ job.exists
  /\ job.last_updated # NoTime
  /\ \E a \in Ages :
       /\ a > job.last_updated
       /\ job' = [job EXCEPT !.last_updated = a]
  /\ UNCHANGED <<jobKind, req, resp, worker, pdf_files, unrecon, keyVars, libVars>>

(* ====================== PDF chunking job: HTTP ========================= *)
\* ChunkStartDecision with the timeout comparison made non-strict
ChunkStartDecision_AtTimeout(j) ==
  IF j.status = "RUNNING"
  THEN IF j.last_updated # NoTime
       THEN IF j.last_updated >= JOB_TIMEOUT_MINUTES THEN "reset_stuck"
            ELSE "already_running"
       ELSE "already_running"
  ELSE "proceed"

\* document.py 789-807: what the start request decides from the locked row
ChunkStartDecision(j) ==
  IF j.status = "RUNNING"
  THEN IF j.last_updated # NoTime
       THEN IF j.last_updated > JOB_TIMEOUT_MINUTES THEN "reset_stuck"
            ELSE "already_running"
       ELSE "already_running"
  ELSE "proceed"

\* document.py 819-826: INISIALISASI JOB
ChunkStartedRow(j, n) ==
  [j EXCEPT !.status = "RUNNING", !.total_items = n, !.processed_items = 0,
            !.last_updated = 0, !.last_error = Msg("starting")]

\* document.py 809-842: validate the folder, initialise the row, spawn the worker.
\* The folder is configured and present; row is the row this transaction holds
\* (a freshly inserted one is persisted only by the commit at 827).
ChunkStartInit(r, row) ==
  IF pdf_files = 0
  THEN /\ resp' = Respond("start", "no_input", FALSE)
       /\ UNCHANGED <<job, worker>>
  ELSE /\ job' = ChunkStartedRow(row, pdf_files)
       /\ \E w \in Workers : Spawned(w)
       /\ resp' = Respond("start", "accepted", FALSE)

\* document.py 780-807 (then 809-842 in the same transaction unless the stuck
\* reset committed first)
start_chunking_job(r) ==
  /\ jobKind = "chunking"
  /\ req[r].pc = "idle"
  /\ IF ~job.exists
     THEN /\ req' = [req EXCEPT ![r].pc = "insert"]
          /\ UNCHANGED <<job, worker, resp>>
     ELSE LET d == ChunkStartDecision(job) IN
          IF d = "already_running"
          THEN /\ resp' = Respond("start", "already_running", FALSE)
               /\ UNCHANGED <<job, worker, req>>
          ELSE IF d = "reset_stuck"
          THEN /\ job' = [job EXCEPT !.status = "IDLE", !.last_error = Msg("stuck_reset")]
               /\ req' = [req EXCEPT ![r].pc = "init"]
               /\ worker' = DeclaredDead
               /\ UNCHANGED resp
          ELSE /\ ChunkStartInit(r, job)
               /\ UNCHANGED req
  /\ UNCHANGED <<jobKind, pdf_files, unrecon, keyVars, libVars>>

\* document.py 783-786 for a request that found no row: INSERT (unique job_name)
start_chunking_insert(r) ==
  /\ jobKind = "chunking"
  /\ req[r].pc = "insert"
  /\ req' = [req EXCEPT ![r] = IdleReq]
  /\ IF job.exists
     THEN /\ resp' = Respond("start", "error", FALSE)
          /\ UNCHANGED <<job, worker>>
     ELSE ChunkStartInit(r, NewJob)
  /\ UNCHANGED <<jobKind, pdf_files, unrecon, keyVars, libVars>>

\* document.py 809-842 after the stuck reset was committed at 799
start_chunking_init(r) ==
  /\ jobKind = "chunking"
  /\ req[r].pc = "init"
  /\ req' = [req EXCEPT ![r] = IdleReq]
  /\ ChunkStartInit(r, job)
  /\ UNCHANGED <<jobKind, pdf_files, unrecon, keyVars, libVars>>

\* document.py 878: the states in which the stop request is accepted
ChunkStopAccepts(status) == status \in {"RUNNING", "STOPPING"}

stop_chunking_job(r) ==
  /\ jobKind = "chunking"
  /\ req[r].pc = "idle"
  /\ IF ~job.exists
     THEN /\ resp' = Respond("stop", "not_found", FALSE)
          /\ UNCHANGED job
     ELSE IF ~ChunkStopAccepts(job.status)
     THEN /\ resp' = Respond("stop", "not_running", FALSE)
          /\ UNCHANGED job
     ELSE /\ job' = [job EXCEPT !.status = "STOPPING", !.last_error = Msg("stop_sent"),
                                !.last_updated = 0]
          /\ resp' = Respond("stop", "accepted", FALSE)
  /\ UNCHANGED <<jobKind, req, worker, pdf_files, unrecon, keyVars, libVars>>

\* ReportedStuck with the timeout comparison made non-strict
ReportedStuck_AtTimeout(j) ==
  /\ j.status = "RUNNING"
  /\ j.last_updated # NoTime
  /\ j.last_updated >= JOB_TIMEOUT_MINUTES

\* document.py 931-938: DETEKSI STUCK
ReportedStuck(j) ==
  /\ j.status = "RUNNING"
  /\ j.last_updated # NoTime
  /\ j.last_updated > JOB_TIMEOUT_MINUTES

get_chunking_job_status(r) ==
  /\ jobKind = "chunking"
  /\ req[r].pc = "idle"
  /\ resp' = IF ~job.exists
             THEN Respond("status", "ok", FALSE)
             ELSE Respond("status", "ok", ReportedStuck(job))
  /\ UNCHANGED <<jobKind, job, req, worker, pdf_files, unrecon, keyVars, libVars>>

reset_stuck_job(r) ==
  /\ jobKind = "chunking"
  /\ req[r].pc = "idle"
  /\ IF ~job.exists
     THEN /\ resp' = Respond("reset", "not_found", FALSE)
          /\ UNCHANGED job
     ELSE /\ job' = [job EXCEPT !.status = "IDLE", !.last_error = Msg("manual_reset")]
          /\ resp' = Respond("reset", "reset", FALSE)
  /\ UNCHANGED <<jobKind, req, worker, pdf_files, unrecon, keyVars, libVars>>

ChunkHttp(r) ==
  \/ start_chunking_job(r)
  \/ start_chunking_insert(r)
  \/ start_chunking_init(r)
  \/ stop_chunking_job(r)
  \/ get_chunking_job_status(r)
  \/ reset_stuck_job(r)

(* ===================== PDF chunking job: worker ======================== *)
\* run_pdf_chunking 672-680: the poll before file i and, when it says go on,
\* the heartbeat; one transaction (row lock taken by the poll, released by
\* the heartbeat's or the cleanup's commit)
ChunkLoopTop(w, wk, i) ==
  IF check_job_should_stop(job)
  THEN /\ job' = cleanup_job_state(job, "IDLE",
                   CountMsg("stopped", wk.ok, wk.err, wk.skip))
       /\ worker' = [worker EXCEPT ![w] = NoWorker]
  ELSE /\ job' = update_job_heartbeat(job, FALSE, 0, TRUE, Msg("preparing"))
       /\ worker' = [worker EXCEPT ![w] = [wk EXCEPT !.pc = "infile", !.i = i]]

\* run_pdf_chunking 728-740: final status and message
FinalStatus(processed_count, error_count) ==
  IF error_count > 0
  THEN (IF processed_count = 0 THEN "FAILED" ELSE "COMPLETED")
  ELSE "COMPLETED"

FinalMsg(processed_count, error_count, skipped_count) ==
  IF error_count > 0
  THEN CountMsg("done_with_warnings", processed_count, error_count, skipped_count)
  ELSE CountMsg("done", processed_count, error_count, skipped_count)

\* run_pdf_chunking 638-680: initial validation, listing, first loop top
run_pdf_chunking_begin(w) ==
  /\ jobKind = "chunking"
  /\ worker[w].pc = "spawned"
  /\ IF ~job.exists \/ job.status # "RUNNING"
     THEN /\ worker' = [worker EXCEPT ![w] = NoWorker]
          /\ UNCHANGED job
     ELSE IF pdf_files = 0
     THEN /\ job' = cleanup_job_state(job, "COMPLETED", Msg("no_files"))
          /\ worker' = [worker EXCEPT ![w] = NoWorker]
     ELSE ChunkLoopTop(w, [worker[w] EXCEPT !.n = pdf_files], 1)
  /\ UNCHANGED <<jobKind, req, resp, pdf_files, unrecon, keyVars, libVars>>

\* run_pdf_chunking 696-716: count the file's result, heartbeat with the count
FileResult(w, status) ==
  LET wk == worker[w]
      ok == IF status = "success" THEN wk.ok + 1 ELSE wk.ok
      skip == IF status = "skipped" THEN wk.skip + 1 ELSE wk.skip
      err == IF status \notin {"success", "skipped"} THEN wk.err + 1 ELSE wk.err
  IN /\ job' = update_job_heartbeat(job, TRUE, ok + skip + err, FALSE, Msg("none"))
     /\ worker' = [worker EXCEPT ![w] =
                     [wk EXCEPT !.pc = "next", !.ok = ok, !.skip = skip, !.err = err,
                                !.p = 0, !.pages = 0]]

\* process_and_save_pdf 505-545: hash lookup, resume point, open
process_and_save_pdf_init(w) ==
  /\ jobKind = "chunking"
  /\ worker[w].pc = "infile"
  /\ \E outcome \in {"skipped", "error", "open", "raise"} :
       IF outcome = "open"
       THEN /\ \E n \in 1..MaxPages :
                 worker' = [worker EXCEPT ![w] = [@ EXCEPT !.pc = "page", !.p = 1, !.pages = n]]
            /\ UNCHANGED job
       ELSE IF outcome = "raise"
       THEN \* run_pdf_chunking 719-724: the iteration's except clause
            /\ worker' = [worker EXCEPT ![w] = [@ EXCEPT !.pc = "next", !.err = @ + 1]]
            /\ UNCHANGED job
       ELSE FileResult(w, outcome)
  /\ UNCHANGED <<jobKind, req, resp, pdf_files, unrecon, keyVars, libVars>>

\* process_and_save_pdf 556-565: poll before the page; "stopped" goes straight
\* to run_pdf_chunking 699-703 under the same row lock
process_and_save_pdf_poll(w) ==
  /\ jobKind = "chunking"
  /\ worker[w].pc = "page"
  /\ IF check_job_should_stop(job)
     THEN /\ job' = cleanup_job_state(job, "IDLE",
                      CountMsg("stopped_in_file", worker[w].ok, worker[w].err, worker[w].skip))
          /\ worker' = [worker EXCEPT ![w] = NoWorker]
     ELSE /\ job' = update_job_heartbeat(job, FALSE, 0, TRUE, Msg("page"))
          /\ worker' = [worker EXCEPT ![w] = [@ EXCEPT !.pc = "pagework"]]
  /\ UNCHANGED <<jobKind, req, resp, pdf_files, unrecon, keyVars, libVars>>

\* process_and_save_pdf 567-669: the page's work; the last page ends the file
process_and_save_pdf_page(w) ==
  /\ jobKind = "chunking"
  /\ worker[w].pc = "pagework"
  /\ \E outcome \in {"ok", "error"} :
       IF outcome = "error"
       THEN FileResult(w, "error")
       ELSE IF worker[w].p < worker[w].pages
       THEN /\ worker' = [worker EXCEPT ![w] = [@ EXCEPT !.pc = "page", !.p = @ + 1]]
            /\ UNCHANGED job
       ELSE FileResult(w, "success")
  /\ UNCHANGED <<jobKind, req, resp, pdf_files, unrecon, keyVars, libVars>>

\* a worker that a stuck reset declared dead leaves without writing the row
run_pdf_chunking_next_Fenced(w) ==
  /\ jobKind = "chunking"
  /\ worker[w].pc = "next"
  /\ IF worker[w].stale
     THEN /\ worker' = [worker EXCEPT ![w] = NoWorker]
          /\ UNCHANGED job
     ELSE IF worker[w].i < worker[w].n
     THEN ChunkLoopTop(w, worker[w], worker[w].i + 1)
     ELSE /\ job' = cleanup_job_state(job,
                      FinalStatus(worker[w].ok, worker[w].err),
                      FinalMsg(worker[w].ok, worker[w].err, worker[w].skip))
          /\ worker' = [worker EXCEPT ![w] = NoWorker]
  /\ UNCHANGED <<jobKind, req, resp, pdf_files, unrecon, keyVars, libVars>>

\* run_pdf_chunking 669-680 for the next file, or 726-741 after the last one
run_pdf_chunking_next(w) ==
  /\ jobKind = "chunking"
  /\ worker[w].pc = "next"
  /\ IF worker[w].i < worker[w].n
     THEN ChunkLoopTop(w, worker[w], worker[w].i + 1)
     ELSE /\ job' = cleanup_job_state(job,
                      FinalStatus(worker[w].ok, worker[w].err),
                      FinalMsg(worker[w].ok, worker[w].err, worker[w].skip))
          /\ worker' = [worker EXCEPT ![w] = NoWorker]
  /\ UNCHANGED <<jobKind, req, resp, pdf_files, unrecon, keyVars, libVars>>

ChunkWorker(w) ==
  \/ run_pdf_chunking_begin(w)
  \/ process_and_save_pdf_init(w)
  \/ process_and_save_pdf_poll(w)
  \/ process_and_save_pdf_page(w)
  \/ run_pdf_chunking_next(w)

(* ===================== reconstruction job: HTTP ======================== *)
\* document.py 1213: the only state in which a start is refused
ReconStartRefused(j) == j.exists /\ j.status = "RUNNING"

\* document.py 1231-1236
ReconStartedRow(j, n) ==
  [j EXCEPT !.status = "RUNNING", !.total_items = n, !.processed_items = 0,
            !.last_error = Msg("none")]

\* document.py 1224-1226
ReconNothingRow(j) ==
  [j EXCEPT !.status = "COMPLETED", !.total_items = 0, !.processed_items = 0]

\* document.py 1207-1214: unlocked read of the row
start_batch_reconstruction(r) ==
  /\ jobKind = "reconstruction"
  /\ req[r].pc = "idle"
  /\ IF ReconStartRefused(job)
     THEN /\ resp' = Respond("start", "already_running", FALSE)
          /\ UNCHANGED req
     ELSE /\ req' = [req EXCEPT ![r] = [pc |-> "rstart", seen |-> SeenStatus(job)]]
          /\ UNCHANGED resp
  /\ UNCHANGED <<jobKind, job, worker, pdf_files, unrecon, keyVars, libVars>>

\* document.py 1216-1247: count, write the row, commit, spawn
start_batch_reconstruction_commit(r) ==
  /\ jobKind = "reconstruction"
  /\ req[r].pc = "rstart"
  /\ req' = [req EXCEPT ![r] = IdleReq]
  /\ LET mine == IF req[r].seen = "ABSENT" THEN NewJob ELSE job
         n == Cardinality(unrecon)
     IN IF req[r].seen = "ABSENT" /\ job.exists
        THEN \* INSERT of a second row for the job name: IntegrityError
             /\ resp' = Respond("start", "error", FALSE)
             /\ UNCHANGED <<job, worker>>
        ELSE IF n = 0
        THEN /\ job' = ReconNothingRow(mine)
             /\ resp' = Respond("start", "no_input", FALSE)
             /\ UNCHANGED worker
        ELSE /\ job' = ReconStartedRow(mine, n)
             /\ \E w \in Workers : Spawned(w)
             /\ resp' = Respond("start", "accepted", FALSE)
  /\ UNCHANGED <<jobKind, pdf_files, unrecon, keyVars, libVars>>

\* document.py 1276: the states in which the stop request is accepted
ReconStopAccepts(j) == j.exists /\ j.status = "RUNNING"

\* document.py 1273-1277: unlocked read of the row
stop_batch_reconstruction(r) ==
  /\ jobKind = "reconstruction"
  /\ req[r].pc = "idle"
  /\ IF ~ReconStopAccepts(job)
     THEN /\ resp' = Respond("stop", "not_running", FALSE)
          /\ UNCHANGED req
     ELSE /\ req' = [req EXCEPT ![r] = [pc |-> "rstop", seen |-> job.status]]
          /\ UNCHANGED resp
  /\ UNCHANGED <<jobKind, job, worker, pdf_files, unrecon, keyVars, libVars>>

\* document.py 1279-1282
stop_batch_reconstruction_commit(r) ==
  /\ jobKind = "reconstruction"
  /\ req[r].pc = "rstop"
  /\ req' = [req EXCEPT ![r] = IdleReq]
  /\ job' = [job EXCEPT !.status = "STOPPING"]
  /\ resp' = Respond("stop", "accepted", FALSE)
  /\ UNCHANGED <<jobKind, worker, pdf_files, unrecon, keyVars, libVars>>

\* document.py 1306-1325
get_batch_reconstruction_status(r) ==
  /\ jobKind = "reconstruction"
  /\ req[r].pc = "idle"
  /\ resp' = Respond("status", "ok", FALSE)
  /\ UNCHANGED <<jobKind, job, req, worker, pdf_files, unrecon, keyVars, libVars>>

ReconHttp(r) ==
  \/ start_batch_reconstruction(r)
  \/ start_batch_reconstruction_commit(r)
  \/ stop_batch_reconstruction(r)
  \/ stop_batch_reconstruction_commit(r)
  \/ get_batch_reconstruction_status(r)

(* ==================== reconstruction job: worker ======================= *)
\* order_by(page_number): the ids in ascending order
SortedSeq(S) ==
  CHOOSE q \in [1..Cardinality(S) -> S] :
    \A a, b \in 1..Cardinality(S) : a < b => q[a] < q[b]

\* document.py 1062-1076
run_batch_reconstruction_begin(w) ==
  /\ jobKind = "reconstruction"
  /\ worker[w].pc = "spawned"
  /\ IF ~job.exists \/ job.status # "RUNNING"
     THEN worker' = [worker EXCEPT ![w] = NoWorker]
     ELSE worker' = [worker EXCEPT ![w] =
                       [@ EXCEPT !.pc = "rloop", !.i = 1, !.todo = SortedSeq(unrecon)]]
  /\ UNCHANGED <<jobKind, job, req, resp, pdf_files, unrecon, keyVars, libVars>>

\* document.py 1080-1085: refresh the row before each chunk
run_batch_reconstruction_poll(w) ==
  /\ jobKind = "reconstruction"
  /\ worker[w].pc = "rloop"
  /\ IF worker[w].i > Len(worker[w].todo)
     THEN worker' = [worker EXCEPT ![w] = [@ EXCEPT !.pc = "rfinal"]]
     ELSE IF job.status = "STOPPING"
     THEN worker' = [worker EXCEPT ![w] = [@ EXCEPT !.pc = "rfinal"]]
     ELSE worker' = [worker EXCEPT ![w] = [@ EXCEPT !.pc = "rchunk", !.cached = job.status]]
  /\ UNCHANGED <<jobKind, job, req, resp, pdf_files, unrecon, keyVars, libVars>>

\* document.py 1088-1149: one chunk
run_batch_reconstruction_chunk(w) ==
  /\ jobKind = "reconstruction"
  /\ worker[w].pc = "rchunk"
  /\ \E outcome \in {"text", "empty", "raise"} :
       IF outcome = "raise"
       THEN \* 1140-1147
            /\ job' = [job EXCEPT
                         !.status = IF worker[w].cached # "FAILED" THEN "FAILED" ELSE @,
                         !.last_error = Msg("chunk_failed")]
            /\ worker' = [worker EXCEPT ![w] = NoWorker]
            /\ UNCHANGED unrecon
       ELSE \* 1129-1136
            /\ unrecon' = IF outcome = "text" THEN unrecon \ {worker[w].todo[worker[w].i]}
                          ELSE unrecon
            /\ job' = [job EXCEPT !.processed_items = @ + 1]
            /\ worker' = [worker EXCEPT ![w] = [@ EXCEPT !.pc = "rloop", !.i = @ + 1,
                                                         !.cached = NoWorker.cached]]
  /\ UNCHANGED <<jobKind, req, resp, pdf_files, keyVars, libVars>>

\* document.py 1153
run_batch_reconstruction_refresh(w) ==
  /\ jobKind = "reconstruction"
  /\ worker[w].pc = "rfinal"
  /\ worker' = [worker EXCEPT ![w] = [@ EXCEPT !.pc = "rcommit", !.cached = job.status]]
  /\ UNCHANGED <<jobKind, job, req, resp, pdf_files, unrecon, keyVars, libVars>>

\* document.py 1155-1166
ReconFinalRow(j, cached) ==
  IF cached = "STOPPING" THEN [j EXCEPT !.status = "IDLE"]
  ELSE IF cached = "RUNNING" THEN [j EXCEPT !.status = "COMPLETED"]
  ELSE j

run_batch_reconstruction_finish(w) ==
  /\ jobKind = "reconstruction"
  /\ worker[w].pc = "rcommit"
  /\ job' = ReconFinalRow(job, worker[w].cached)
  /\ worker' = [worker EXCEPT ![w] = NoWorker]
  /\ UNCHANGED <<jobKind, req, resp, pdf_files, unrecon, keyVars, libVars>>

ReconWorker(w) ==
  \/ run_batch_reconstruction_begin(w)
  \/ run_batch_reconstruction_poll(w)
  \/ run_batch_reconstruction_chunk(w)
  \/ run_batch_reconstruction_refresh(w)
  \/ run_batch_reconstruction_finish(w)

(* =================== credential rotation: shared state ================= *)
\* self.client = None / self.url = None
NoClient == 0 - 1

\* indices into self.api_keys
Keys == 0..(NumKeys - 1)

Callers == 1..NumCallers

\* the credentials in pool order
PoolOrder == [i \in 1..NumKeys |-> i - 1]

\* GeminiApiKeyConfig row with its column defaults.  quota_exceeded_at holds
\* the age of the timestamp in hours.  The request statistics (total_requests,
\* failed_requests, last_used) are written but never read by the services.
FreshConfig == [quota_exceeded |-> FALSE, quota_exceeded_at |-> NoTime]

\* check_and_reset_quota without the test of the cooldown
check_and_reset_quota_Always(cfg) == FreshConfig

\* models.py 39-46, 68-77
check_and_reset_quota(cfg) ==
  IF cfg.quota_exceeded /\ cfg.quota_exceeded_at # NoTime
  THEN IF cfg.quota_exceeded_at >= QUOTA_RESET_HOURS THEN FreshConfig ELSE cfg
  ELSE cfg

\* models.py 79-83
mark_quota_exceeded(cfg) == [quota_exceeded |-> TRUE, quota_exceeded_at |-> 0]

\* NextKeyIndex stepping over a credential
NextKeyIndex_Skip(i) == i + 2

\* self.current_key_index += 1: the value stored for the value that was read
NextKeyIndex(i) == i + 1

\* services.py 218-250: result, client and key rows after _initialize_client
initialize_client(index, cl, kc) ==
  IF index >= NumKeys
  THEN [ok |-> FALSE, client |-> NoClient, key_config |-> kc]
  ELSE LET checked == [kc EXCEPT ![index] = check_and_reset_quota(@)] IN
       IF checked[index].quota_exceeded
       THEN [ok |-> FALSE, client |-> cl, key_config |-> checked]
       ELSE [ok |-> TRUE, client |-> index, key_config |-> checked]

\* services.py 60-67
update_url(index) == IF index < NumKeys THEN index ELSE NoClient

\* the words the services look for in a provider error, and one that is none
QuotaMarkers == {"429", "quota", "resource_exhausted"}

SafetyMarkers == {"safety", "blocked"}

\* provider errors, each the set of marker words its text contains
ErrorTexts ==
  {{"429"}, {"quota", "resource_exhausted"}, {"safety", "blocked"},
   {"blocked", "429"}, {"internal"}}

\* services.py 310, 363
IsQuotaError(e) == e \cap QuotaMarkers # {}

\* services.py 317
IsSafetyError(e) == e \cap SafetyMarkers # {}

\* services.py 307-323: what stream_generate_content does with an error
StreamOnError(e) ==
  IF IsQuotaError(e) THEN "rotate"
  ELSE IF IsSafetyError(e) THEN "blocked"
  ELSE "error"

\* services.py 361-370: what generate_content does with an error
GenerateOnError(e) == IF IsQuotaError(e) THEN "rotate" ELSE "none"

(* ------------------------- request threads ----------------------------- *)
\* A thread inside one service call.  sent lists the credentials its provider
\* calls used; tmp is the index read by "+= 1".  History kept for the
\* properties: idx0 (the index was 0 when the call began), fresh (and the
\* client or url was the first credential's and no credential was flagged),
\* alone (no other call or reload overlapped), allquota (every provider
\* answer so far was a quota error), idx (the index when the failed provider
\* call being handled was made; its credential is the last of sent), safety
\* (that failure's text had a safety marker), answer (the kind of the latest
\* answer EmbeddingService.generate is acting on: "quota", "transient",
\* "permanent").
IdleCall ==
  [pc |-> "idle", op |-> "none", attempt |-> 0, retry |-> 0, tmp |-> 0,
   sent |-> <<>>, idx0 |-> FALSE, fresh |-> FALSE, alone |-> FALSE,
   allquota |-> FALSE, idx |-> 0, safety |-> FALSE, answer |-> "none"]

\* what the latest finished call gave its caller, and from which statement
NoOut == [op |-> "none", result |-> "none", cause |-> "none"]

NoFlagged == \A k \in Keys : ~key_config[k].quota_exceeded

NewCall(c, op) ==
  [IdleCall EXCEPT
     !.pc = "loop", !.op = op,
     !.idx0 = (current_key_index = 0),
     !.fresh = /\ current_key_index = 0
               /\ NoFlagged
               /\ IF op = "embed" THEN url = 0 ELSE client = 0,
     !.alone = \A d \in Callers \ {c} : caller[d].pc = "idle",
     !.allquota = TRUE]

\* the other threads, told apart from c, lose "alone" when c begins a call
Overlapped(c, isNew) ==
  [d \in Callers |->
     IF isNew /\ caller[d].pc # "idle" THEN [caller[d] EXCEPT !.alone = FALSE]
     ELSE caller[d]]

\* the call of thread c returns or raises
Finish(c, me, isNew, result, cause) ==
  /\ caller' = [Overlapped(c, isNew) EXCEPT ![c] = IdleCall]
  /\ out' = [op |-> me.op, result |-> result, cause |-> cause]

\* thread c goes on inside its call
Continue(c, me, isNew) ==
  /\ caller' = [Overlapped(c, isNew) EXCEPT ![c] = me]
  /\ out' = out

(* ============================ GeminiService ============================ *)
\* services.py 266-325 and 327-372: one pass of "for attempt in range(...)":
\* the client check, the provider call and the handling of its answer
GeminiAttempt(c, me, isNew) ==
  IF me.attempt >= NumKeys
  THEN \* the loop ran out: 325, 372
       /\ Finish(c, me, isNew, IF me.op = "stream" THEN "raise" ELSE "none", "attempts_used")
       /\ UNCHANGED <<current_key_index, client, key_config>>
  ELSE LET init == IF client = NoClient
                   THEN initialize_client(current_key_index, client, key_config)
                   ELSE [ok |-> TRUE, client |-> client, key_config |-> key_config]
       IN IF ~init.ok
          THEN /\ Finish(c, me, isNew, IF me.op = "stream" THEN "raise" ELSE "none", "no_client")
               /\ client' = init.client
               /\ key_config' = init.key_config
               /\ UNCHANGED current_key_index
          ELSE /\ client' = init.client
               /\ key_config' = init.key_config
               /\ UNCHANGED current_key_index
               /\ LET called == [me EXCEPT !.sent = Append(@, init.client)] IN
                  \/ Finish(c, called, isNew, "ok", "answer")
                  \/ \E e \in ErrorTexts :
                       LET todo == IF me.op = "stream" THEN StreamOnError(e)
                                   ELSE GenerateOnError(e)
                           failed == [called EXCEPT !.allquota = @ /\ IsQuotaError(e),
                                                    !.safety = IsSafetyError(e)]
                       IN IF todo = "rotate"
                          THEN Continue(c, [failed EXCEPT !.pc = "rotate",
                                                          !.idx = current_key_index], isNew)
                          ELSE Finish(c, failed, isNew,
                                      IF me.op = "stream" THEN "raise" ELSE "none", todo)

\* services.py 266: a thread calls stream_generate_content
stream_generate_content(c) ==
  /\ service = "gemini"
  /\ caller[c].pc = "idle"
  /\ calls < MaxCalls
  /\ calls' = calls + 1
  /\ GeminiAttempt(c, NewCall(c, "stream"), TRUE)
  /\ UNCHANGED <<service, reloads, url, jobVars, libVars>>

\* services.py 327: a thread calls generate_content
generate_content(c) ==
  /\ service = "gemini"
  /\ caller[c].pc = "idle"
  /\ calls < MaxCalls
  /\ calls' = calls + 1
  /\ GeminiAttempt(c, NewCall(c, "generate"), TRUE)
  /\ UNCHANGED <<service, reloads, url, jobVars, libVars>>

\* "continue" at 314, 366: the next pass of the loop
gemini_next_attempt(c) ==
  /\ service = "gemini"
  /\ caller[c].pc = "loop"
  /\ GeminiAttempt(c, caller[c], FALSE)
  /\ UNCHANGED <<service, calls, reloads, url, jobVars, libVars>>

\* services.py 254-261: _rotate_key marks the row of the current index and
\* reads the index for "+= 1"
gemini_rotate_key_mark(c) ==
  /\ service = "gemini"
  /\ caller[c].pc = "rotate"
  /\ key_config' = IF current_key_index < NumKeys
                   THEN [key_config EXCEPT ![current_key_index] = mark_quota_exceeded(@)]
                   ELSE key_config
  /\ caller' = [caller EXCEPT ![c] = [@ EXCEPT !.pc = "store", !.tmp = current_key_index]]
  /\ UNCHANGED <<service, calls, reloads, current_key_index, client, url, out, jobVars, libVars>>

\* services.py 262-264: _rotate_key stores the index and initialises the client
gemini_rotate_key_store(c) ==
  /\ service = "gemini"
  /\ caller[c].pc = "store"
  /\ LET index == NextKeyIndex(caller[c].tmp)
         init == initialize_client(index, client, key_config)
         me == [caller[c] EXCEPT !.tmp = 0, !.idx = 0, !.safety = FALSE]
     IN /\ current_key_index' = index
        /\ client' = init.client
        /\ key_config' = init.key_config
        /\ IF init.ok
           THEN Continue(c, [me EXCEPT !.pc = "loop", !.attempt = @ + 1], FALSE)
           ELSE Finish(c, me, FALSE, IF me.op = "stream" THEN "raise" ELSE "none",
                       "rotate_failed")
  /\ UNCHANGED <<service, calls, reloads, url, jobVars, libVars>>

GeminiCall(c) ==
  \/ stream_generate_content(c)
  \/ generate_content(c)
  \/ gemini_next_attempt(c)
  \/ gemini_rotate_key_mark(c)
  \/ gemini_rotate_key_store(c)

(* =========================== EmbeddingService ========================== *)
\* services.py 98-151: one requests.post with the url of the moment and the
\* handling of its answer; a missing url makes requests raise, and so does
\* raise_for_status (128) for a 4xx answer other than 429: both are caught
\* at 139 like a timeout
EmbedPost(c, me, isNew) ==
  LET called == IF url = NoClient THEN me ELSE [me EXCEPT !.sent = Append(@, url)]
      answers == IF url = NoClient THEN {"exception"}
                 ELSE {"values", "empty", "429", "5xx", "4xx", "exception"}
  IN \E a \in answers :
       LET got == [called EXCEPT
                     !.allquota = @ /\ a = "429",
                     !.answer = IF a = "429" THEN "quota"
                                ELSE IF a = "4xx" THEN "permanent"
                                ELSE "transient"] IN
       IF a = "values" THEN Finish(c, got, isNew, "ok", "answer")
       ELSE IF a = "empty" THEN Finish(c, got, isNew, "none", "no_values")
       ELSE IF a = "429"
       THEN Continue(c, [got EXCEPT !.pc = "rotate", !.idx = current_key_index], isNew)
       ELSE IF me.retry < retries_per_key - 1
       THEN Continue(c, [got EXCEPT !.pc = "loop", !.retry = @ + 1], isNew)
       ELSE Continue(c, [got EXCEPT !.pc = "rotate", !.idx = current_key_index], isNew)

\* services.py 81-108: generate() up to the answer of its first post
generate(c) ==
  /\ service = "embedding"
  /\ caller[c].pc = "idle"
  /\ calls < MaxCalls
  /\ calls' = calls + 1
  /\ IF url = NoClient
     THEN Finish(c, NewCall(c, "embed"), TRUE, "none", "no_url")
     ELSE EmbedPost(c, NewCall(c, "embed"), TRUE)
  /\ UNCHANGED <<service, reloads, current_key_index, client, url, key_config, jobVars, libVars>>

\* the next pass of the retry loop or of the key loop
embed_next_post(c) ==
  /\ service = "embedding"
  /\ caller[c].pc = "loop"
  /\ EmbedPost(c, caller[c], FALSE)
  /\ UNCHANGED <<service, calls, reloads, current_key_index, client, url, key_config, jobVars, libVars>>

\* services.py 69-79: _rotate_key tests the index and reads it for "+= 1",
\* or gives up
embed_rotate_key_test(c) ==
  /\ service = "embedding"
  /\ caller[c].pc = "rotate"
  /\ IF current_key_index < NumKeys - 1
     THEN /\ Continue(c, [caller[c] EXCEPT !.pc = "store", !.tmp = current_key_index], FALSE)
          /\ UNCHANGED url
     ELSE /\ url' = NoClient
          /\ Finish(c, caller[c], FALSE, "none", "rotate_failed")
  /\ UNCHANGED <<service, calls, reloads, current_key_index, client, key_config, jobVars, libVars>>

\* services.py 72-75 and the "break": store the index, update the url, go
\* on to the next pass of the key loop or leave it at 152
embed_rotate_key_store(c) ==
  /\ service = "embedding"
  /\ caller[c].pc = "store"
  /\ LET index == NextKeyIndex(caller[c].tmp)
         me == [caller[c] EXCEPT !.tmp = 0, !.idx = 0, !.retry = 0, !.attempt = @ + 1,
                                 !.answer = "none"]
     IN /\ current_key_index' = index
        /\ url' = update_url(index)
        /\ IF me.attempt >= NumKeys
           THEN Finish(c, me, FALSE, "none", "attempts_used")
           ELSE Continue(c, [me EXCEPT !.pc = "loop"], FALSE)
  /\ UNCHANGED <<service, calls, reloads, client, key_config, jobVars, libVars>>

EmbedCall(c) ==
  \/ generate(c)
  \/ embed_next_post(c)
  \/ embed_rotate_key_test(c)
  \/ embed_rotate_key_store(c)

(* ======================= both services: environment ==================== *)
\* services.py 32-37, 181-186 (api_keys.py 136-137): the keys are reloaded
reload_keys ==
  /\ service \in {"gemini", "embedding"}
  /\ reloads < MaxReloads
  /\ reloads' = reloads + 1
  /\ current_key_index' = 0
  /\ IF service = "gemini"
     THEN LET init == initialize_client(0, client, key_config) IN
          /\ client' = init.client
          /\ key_config' = init.key_config
          /\ UNCHANGED url
     ELSE /\ url' = update_url(0)
          /\ UNCHANGED <<client, key_config>>
  /\ caller' = [d \in Callers |->
                  IF caller[d].pc # "idle" THEN [caller[d] EXCEPT !.alone = FALSE]
                  ELSE caller[d]]
  /\ UNCHANGED <<service, out, calls, jobVars, libVars>>

\* QUOTA_RESET_HOURS pass between two calls: every quota flag set before is
\* now that old
KeyTick ==
  /\ service = "gemini"
  /\ \A c \in Callers : caller[c].pc = "idle"
  /\ \E k \in Keys : key_config[k].quota_exceeded_at \notin {NoTime, QUOTA_RESET_HOURS}
  /\ key_config' = [k \in Keys |->
                      IF key_config[k].quota_exceeded_at = NoTime THEN key_config[k]
                      ELSE [key_config[k] EXCEPT !.quota_exceeded_at = QUOTA_RESET_HOURS]]
  /\ UNCHANGED <<service, current_key_index, client, url, caller, out, calls,
                 reloads, jobVars, libVars>>

\* api_keys.py 205-220: update_api_key re-activates credential k; a flag
\* whose cooldown has passed is cleared with its timestamp (models.py 39-44)
update_api_key(k) ==
  /\ service = "gemini"
  /\ key_config' =
       [key_config EXCEPT
          ![k] = IF /\ @.quota_exceeded
                    /\ @.quota_exceeded_at # NoTime
                    /\ @.quota_exceeded_at >= QUOTA_RESET_HOURS
                 THEN [quota_exceeded |-> FALSE, quota_exceeded_at |-> NoTime]
                 ELSE @]
  /\ UNCHANGED <<service, current_key_index, client, url, caller, out, calls,
                 reloads, jobVars, libVars>>

(* --------------------------- specifications ---------------------------- *)
\* no service call is modelled together with the jobs
KeysOff ==
  /\ service = "none"
  /\ current_key_index = 0
  /\ client = NoClient
  /\ url = NoClient
  /\ key_config = [k \in Keys |-> FreshConfig]
  /\ caller = [c \in Callers |-> IdleCall]
  /\ out = NoOut
  /\ calls = 0
  /\ reloads = 0

\* no job is modelled together with the services
JobsOff ==
  /\ jobKind = "none"
  /\ job = NoJob
  /\ req = [r \in Requests |-> IdleReq]
  /\ resp = NoResp
  /\ worker = [w \in Workers |-> NoWorker]
  /\ pdf_files = 0
  /\ unrecon = {}

\* services.py 24-28, 164-179: the services after construction, no key flagged
KeysInit ==
  /\ service \in {"gemini", "embedding"}
  /\ current_key_index = 0
  /\ key_config = [k \in Keys |-> FreshConfig]
  /\ client = IF service = "gemini" THEN 0 ELSE NoClient
  /\ url = IF service = "embedding" THEN 0 ELSE NoClient
  /\ caller = [c \in Callers |-> IdleCall]
  /\ out = NoOut
  /\ calls = 0
  /\ reloads = 0

(* ===================== library functions: calls ======================== *)
\* the arguments of the call under examination and what it returned
NoArgs == [fn |-> "none"]

NoRet == [done |-> FALSE, value |-> <<>>]

Return(value) == [done |-> TRUE, value |-> value]

\* no library call is modelled together with the jobs or the services
LibOff == args = NoArgs /\ ret = NoRet

(* ================= services.py: sliding-window chunker ================= *)
\* characters of the texts: a letter, two whitespace characters, two of the
\* three sentence marks
Chars == {"a", " ", "\n", ".", "?"}

IsSpace(ch) == ch \in {" ", "\n"}

Texts == UNION {[1..n -> Chars] : n \in 0..MaxTextLen}

\* re.sub(r'\s+', ' ', text): every run of whitespace becomes one blank
RECURSIVE CollapseSpaces(_)
CollapseSpaces(t) ==
  IF t = <<>> THEN <<>>
  ELSE LET n == Len(t)
           front == CollapseSpaces(SubSeq(t, 1, n - 1))
       IN IF ~IsSpace(t[n]) THEN Append(front, t[n])
          ELSE IF n > 1 /\ IsSpace(t[n - 1]) THEN front
          ELSE Append(front, " ")

\* str.strip() as positions: the half-open range [from, to) of text[from:to]
\* that is left after leading and trailing whitespace is removed
StripRange(t, from, to) ==
  LET kept == {i \in from..(to - 1) : ~IsSpace(t[i + 1])}
  IN IF kept = {} THEN [from |-> from, to |-> from]
     ELSE [from |-> CHOOSE i \in kept : \A k \in kept : i <= k,
           to |-> (CHOOSE i \in kept : \A k \in kept : i >= k) + 1]

\* text[from:to] with Python's 0-based half-open positions
Slice(t, from, to) == SubSeq(t, from + 1, to)

\* services.py 681: re.sub(r'\s+', ' ', text).strip()
NormalizeText(text) ==
  LET t == CollapseSpaces(text)
      r == StripRange(t, 0, Len(t))
  IN Slice(t, r.from, r.to)

\* str.rfind(ch, start, end): highest position in [start, end) or -1
Rfind(t, ch, start, end) ==
  LET hits == {i \in start..(end - 1) : i < Len(t) /\ t[i + 1] = ch}
  IN IF hits = {} THEN 0 - 1 ELSE CHOOSE i \in hits : \A k \in hits : i >= k

Max2(a, b) == IF a >= b THEN a ELSE b

\* services.py 688-712: where the window that starts at start is cut
\* (split_point > start + chunk_size * 0.5 in integers)
CutEnd(t, chunk_size, start) ==
  LET end == start + chunk_size
      split_point == Max2(Rfind(t, ".", start, end),
                          Max2(Rfind(t, "?", start, end), Rfind(t, "!", start, end)))
      last_space == Rfind(t, " ", start, end)
  IN IF split_point # 0 - 1 /\ 2 * split_point > 2 * start + chunk_size
     THEN split_point + 1
     ELSE IF last_space # 0 - 1 THEN last_space ELSE end

\* the overlap added to the cut instead of taken from it
NextStart_Forward(start, end, overlap) == Max2(start + 1, end + overlap)

\* services.py 720: start = max(start + 1, end - overlap)
NextStart(start, end, overlap) == Max2(start + 1, end - overlap)

\* services.py 687-720: the while loop over the normalised text t. A fragment
\* is kept with the range [from, to) of t that its content was taken from.
RECURSIVE ChunkLoop(_, _, _, _, _)
ChunkLoop(t, chunk_size, overlap, start, chunks) ==
  IF ~(start < Len(t)) THEN chunks
  ELSE IF start + chunk_size >= Len(t)
  THEN Append(chunks, [content |-> Slice(t, start, Len(t)), from |-> start, to |-> Len(t)])
  ELSE LET end == CutEnd(t, chunk_size, start)
           kept == StripRange(t, start, end)
           chunk_content == Slice(t, kept.from, kept.to)
       IN ChunkLoop(t, chunk_size, overlap, NextStart(start, end, overlap),
                    IF chunk_content # <<>>
                    THEN Append(chunks, [content |-> chunk_content,
                                         from |-> kept.from, to |-> kept.to])
                    ELSE chunks)

\* services.py 672-722
semantic_sliding_window_chunker(text, chunk_size, overlap) ==
  IF text = <<>> THEN <<>>
  ELSE ChunkLoop(NormalizeText(text), chunk_size, overlap, 0, <<>>)

\* any text with any chunk_size and overlap, 0 <= overlap < chunk_size
ChunkerInit ==
  /\ args \in {a \in [fn : {"chunker"}, text : Texts, chunk_size : 1..MaxChunkSize,
                      overlap : 0..(MaxChunkSize - 1)] :
                 a.overlap < a.chunk_size}
  /\ ret = NoRet

\* one call of the chunker on the text
chunker_call ==
  /\ args.fn = "chunker"
  /\ ~ret.done
  /\ ret' = Return(semantic_sliding_window_chunker(
                     args.text, args.chunk_size, args.overlap))
  /\ UNCHANGED <<args, jobVars, keyVars>>

(* ===================== helpers.py: build_context ======================= *)
Years == {2021, 2022}

DocPages == 1..MaxDocPages

\* the fragments of one document as DocumentChunk.query returns them: a page
\* has no fragment, one that matches continuation_pattern, or one that does not
PageTables == [DocPages -> {"absent", "plain", "lanjutan"}]

\* what can be retrieved: news items of a year, fragments of a page
Items == [kind : {"news"}, year : Years] \cup [kind : {"chunk"}, page_number : DocPages]

\* lists of distinct items, MaxItems long at most
ItemLists ==
  {l \in UNION {[1..n -> Items] : n \in 0..MaxItems} :
     \A i, j \in 1..Len(l) : l[i] = l[j] => i = j}

\* helpers.py 116-128: the backward scan from page current_page_num
RECURSIVE ScanBackward(_, _, _)
ScanBackward(pages, current_page_num, augmented) ==
  LET prev_page_num == current_page_num - 1
  IN IF prev_page_num <= 0 THEN augmented
     ELSE IF pages[prev_page_num] # "absent" /\ prev_page_num \notin augmented
     THEN IF pages[prev_page_num] # "lanjutan"
          THEN augmented \cup {prev_page_num}
          ELSE ScanBackward(pages, prev_page_num, augmented \cup {prev_page_num})
     ELSE augmented

\* the forward scan left out
ScanForward_None(pages, current_page_num, augmented) == augmented

\* helpers.py 130-140: the forward scan from page current_page_num
RECURSIVE ScanForward(_, _, _)
ScanForward(pages, current_page_num, augmented) ==
  LET next_page_num == current_page_num + 1
  IN IF next_page_num \notin DocPages THEN augmented
     ELSE IF pages[next_page_num] # "lanjutan" THEN augmented
     ELSE ScanForward(pages, next_page_num, augmented \cup {next_page_num})

\* helpers.py 113-140: for chunk in chunks_to_check, from the i-th on
RECURSIVE Augment(_, _, _, _)
Augment(pages, chunks_to_check, i, augmented) ==
  IF i > Len(chunks_to_check) THEN augmented
  ELSE LET page == chunks_to_check[i].page_number
           back == IF pages[page] = "lanjutan"
                   THEN ScanBackward(pages, page, augmented)
                   ELSE augmented
       IN Augment(pages, chunks_to_check, i + 1, ScanForward(pages, page, back))

\* helpers.py 206-214: the years of the 'data tidak lengkap' block, none when
\* the block is not written
MissingYears(requested_years, news_items) ==
  IF requested_years # {}
  THEN requested_years \ {news_items[i].year : i \in 1..Len(news_items)}
  ELSE {}

\* helpers.py 85-217: the context as its parts: the not-found message alone,
\* or the news years, the pages of the document section and the flagged years
build_context(relevant_items, requested_years, pages) ==
  IF relevant_items = <<>>
  THEN [not_found |-> TRUE, news |-> {}, doc_chunks |-> {}, missing_years |-> {}]
  ELSE LET news_items == SelectSeq(relevant_items, LAMBDA x : x.kind = "news")
           doc_chunks == SelectSeq(relevant_items, LAMBDA x : x.kind = "chunk")
       IN [not_found |-> FALSE,
           news |-> {news_items[i].year : i \in 1..Len(news_items)},
           doc_chunks |-> Augment(pages, doc_chunks, 1,
                                  {doc_chunks[i].page_number : i \in 1..Len(doc_chunks)}),
           missing_years |-> MissingYears(requested_years, news_items)]

\* any list of retrieved items of a stored document and the news, any
\* requested years
ContextInit ==
  /\ args \in {a \in [fn : {"build_context"}, relevant_items : ItemLists,
                      requested_years : SUBSET Years, pages : PageTables] :
                 \A i \in 1..Len(a.relevant_items) :
                    a.relevant_items[i].kind = "chunk"
                    => a.pages[a.relevant_items[i].page_number] # "absent"}
  /\ ret = NoRet

build_context_call ==
  /\ args.fn = "build_context"
  /\ ~ret.done
  /\ ret' = Return(build_context(args.relevant_items, args.requested_years, args.pages))
  /\ UNCHANGED <<args, jobVars, keyVars>>

(* ============ feedback.py / helpers.py: feedback and reranking ========= *)
\* the float 1.0 of the scores, scaled so that every score of the model is
\* an integer: days / 365, distance / 4 and counts / (total + 2), total <= 2
ScoreOne == 365 * 12

\* retrievable sources: BeritaBps rows with their release date and
\* DocumentChunk rows with their creation date (as days before today) and type
Sources ==
  [kind : {"news"}, id : 1..MaxIds, days_ago : {0, 300, 700}]
    \cup [kind : {"chunk"}, id : 1..MaxIds, days_ago : {0, 700}, type : {"table", "text"}]

\* date.year, today being day 100 of 2023
YearOf(days_ago) ==
  IF days_ago < 100 THEN 2023 ELSE IF days_ago < 465 THEN 2022 ELSE 2021

\* models.py 329-336: DocumentFeedbackScore.update_score
update_score(positive, negative) ==
  IF positive + negative = 0 THEN ScoreOne \div 2
  ELSE (ScoreOne * (positive + 1)) \div (positive + negative + 2)

\* chat.py 227: the reference logged for a retrieved item, its id as
\* feedback.py 220 reads it: str(item_ref.get('id'))
SourceRef(item) ==
  [type |-> IF item.kind = "news" THEN "berita" ELSE "document_chunk",
   id |-> ToString(item.id)]

\* the DocumentFeedbackScore tables that feedback on logged answers leaves:
\* per reference no row or a row with one positive vote
FeedbackTables ==
  LET keys == {SourceRef(s) : s \in Sources}
  IN {{[entity_type |-> k.type, entity_id |-> k.id, positive |-> 1, negative |-> 0,
        score |-> update_score(1, 0)] : k \in ks} : ks \in SUBSET keys}

\* feedback.py 217-244: the score rows after feedback of feedback_type on the
\* references from the i-th on
RECURSIVE handle_feedback(_, _, _, _)
handle_feedback(table, retrieved_news_ids, i, feedback_type) ==
  IF i > Len(retrieved_news_ids) THEN table
  ELSE LET item_ref == retrieved_news_ids[i]
           entity_type == item_ref.type
           entity_id == item_ref.id
           found == {r \in table : r.entity_type = entity_type /\ r.entity_id = entity_id}
           positive == (IF found = {} THEN 0 ELSE (CHOOSE r \in found : TRUE).positive)
                       + (IF feedback_type = "positive" THEN 1 ELSE 0)
           negative == (IF found = {} THEN 0 ELSE (CHOOSE r \in found : TRUE).negative)
                       + (IF feedback_type = "positive" THEN 0 ELSE 1)
       IN handle_feedback(
            (table \ found) \cup {[entity_type |-> entity_type, entity_id |-> entity_id,
                                   positive |-> positive, negative |-> negative,
                                   score |-> update_score(positive, negative)]},
            retrieved_news_ids, i + 1, feedback_type)

\* helpers.py 527-546: the feedback score the reranker reads for an item
FeedbackOf(table, item) ==
  LET entity_type == IF item.kind = "news" THEN "berita_bps" ELSE "document_chunk"
      found == {r \in table : r.entity_type = entity_type
                              /\ r.entity_id = ToString(item.id)}
  IN IF found = {} THEN ScoreOne \div 2 ELSE (CHOOSE r \in found : TRUE).score

\* helpers.py 507-576: final_score, times 100
FinalScore(item, distance, requested_years, table) ==
  LET relevance == ScoreOne - distance
      elapsed == ScoreOne - (item.days_ago * 12)
      recency == IF item.kind = "news" /\ requested_years # {}
                    /\ YearOf(item.days_ago) \in requested_years
                 THEN ScoreOne
                 ELSE IF elapsed > 0 THEN elapsed ELSE 0
      content_type == IF item.kind = "chunk" /\ item.type = "table"
                      THEN ScoreOne ELSE ScoreOne \div 2
  IN IF requested_years # {}
     THEN 50 * relevance + 30 * FeedbackOf(table, item) + 5 * recency + 15 * content_type
     ELSE 40 * relevance + 35 * FeedbackOf(table, item) + 15 * recency + 10 * content_type

\* helpers.py 499-581: the items by descending final score, sorted() being
\* stable
rerank_with_dss(results_with_distance, requested_years, table) ==
  LET n == Len(results_with_distance)
      score(i) == FinalScore(results_with_distance[i].item,
                             results_with_distance[i].distance, requested_years, table)
      rank(i) == 1 + Cardinality({j \in 1..n : \/ score(j) > score(i)
                                               \/ score(j) = score(i) /\ j < i})
  IN [k \in 1..n |-> results_with_distance[CHOOSE i \in 1..n : rank(i) = k].item]

\* lists of results for distinct sources, MaxResults long at most
ResultLists ==
  {l \in UNION {[1..n -> [item : Sources, distance : {0, ScoreOne \div 4}]] :
                  n \in 0..MaxResults} :
     \A i, j \in 1..Len(l) :
        (l[i].item.kind = l[j].item.kind /\ l[i].item.id = l[j].item.id) => i = j}

RerankInit ==
  /\ args \in [fn : {"rerank_with_dss"}, results_with_distance : ResultLists,
               requested_years : SUBSET Years, scores : FeedbackTables]
  /\ ret = NoRet

rerank_call ==
  /\ args.fn = "rerank_with_dss"
  /\ ~ret.done
  /\ ret' = Return(rerank_with_dss(args.results_with_distance, args.requested_years,
                                   args.scores))
  /\ UNCHANGED <<args, jobVars, keyVars>>

\* feedback on an answer for which some sources were retrieved and logged
FeedbackInit ==
  /\ args \in [fn : {"handle_feedback"}, results_with_distance : ResultLists,
               type : {"positive", "negative"}, scores : FeedbackTables]
  /\ ret = NoRet

\* chat.py 227 for the retrieved items, then feedback.py 217-246
handle_feedback_call ==
  /\ args.fn = "handle_feedback"
  /\ ~ret.done
  /\ ret' = Return(handle_feedback(
                     args.scores,
                     [i \in 1..Len(args.results_with_distance) |->
                        SourceRef(args.results_with_distance[i].item)],
                     1, args.type))
  /\ UNCHANGED <<args, jobVars, keyVars>>

(* ============ chat.py: get_combined_relevant_results =================== *)
\* how a stored fragment's document name stands to the target: the lowered
\* name contains the lowered target (chat.py 88-90), the name without '.pdf'
\* contains the target without '.pdf' (chat.py 72-76), both or neither
NameMatches == {"both", "contains_only", "stem_only", "neither"}

\* chat.py 28-138; distances in tenths. a.embedding is what
\* embedding_service.generate returned, a.chunk_hits and a.berita_hits the ids
\* the vector store returned (nearest first), a.chunks and a.news the tables.
get_combined_relevant_results(a) ==
  LET Hit(kind, hits, i) == [kind |-> kind, id |-> hits[i], distance |-> 2 * i]
      locked ==
        LET found == SelectSeq([i \in 1..Len(a.chunk_hits) |-> Hit("chunk", a.chunk_hits, i)],
                               LAMBDA h : a.chunks[h.id] \in {"both", "stem_only"})
            direct == {c \in DOMAIN a.chunks : a.chunks[c] \in {"both", "contains_only"}}
        IN IF found # <<>> THEN found
           ELSE [i \in 1..Cardinality(direct) |->
                   [kind |-> "chunk", distance |-> 7,
                    id |-> CHOOSE c \in direct :
                             Cardinality({d \in direct : d < c}) = i - 1]]
      general ==
        LET berita == SelectSeq([i \in 1..Len(a.berita_hits) |-> Hit("news", a.berita_hits, i)],
                                LAMBDA h : /\ a.news[h.id] # 0
                                           /\ a.requested_years # {}
                                              => a.news[h.id] \in a.requested_years)
            chunk == SelectSeq([i \in 1..Len(a.chunk_hits) |-> Hit("chunk", a.chunk_hits, i)],
                               LAMBDA h : a.chunks[h.id] # "absent")
            results == berita \o chunk
            more == {n \in DOMAIN a.news :
                       /\ a.news[n] \in a.requested_years
                       /\ \A i \in 1..Len(berita) : berita[i].id # n}
        IN IF a.requested_years # {} /\ Len(results) < Cardinality(a.requested_years)
           THEN results \o [i \in 1..Cardinality(more) |->
                              [kind |-> "news", distance |-> 5,
                               id |-> CHOOSE n \in more :
                                        Cardinality({m \in more : m < n}) = i - 1]]
           ELSE results
      combined_results == IF a.specific_document THEN locked ELSE general
      n == Len(combined_results)
      rank(i) == 1 + Cardinality({j \in 1..n :
                        \/ combined_results[j].distance < combined_results[i].distance
                        \/ /\ combined_results[j].distance = combined_results[i].distance
                           /\ j < i})
  IN IF ~a.embedding THEN <<>>
     ELSE [k \in 1..n |-> combined_results[CHOOSE i \in 1..n : rank(i) = k]]

\* any tables of fragments and news, any answer of the embedding step and of
\* the vector store (ids of rows that are gone included)
RetrievalInit ==
  /\ args \in [fn : {"get_combined_relevant_results"},
               specific_document : BOOLEAN, embedding : BOOLEAN,
               requested_years : {{}, {2021}, {2022}},
               chunks : [1..MaxIds -> NameMatches \cup {"absent"}],
               news : [1..MaxIds -> {0, 2021}],
               chunk_hits : {l \in UNION {[1..n -> 1..MaxIds] : n \in 0..MaxResults} :
                               \A i, j \in 1..Len(l) : l[i] = l[j] => i = j},
               berita_hits : {<<>>} \cup {<<n>> : n \in 1..MaxIds}]
  /\ ret = NoRet

get_combined_relevant_results_call ==
  /\ args.fn = "get_combined_relevant_results"
  /\ ~ret.done
  /\ ret' = Return(get_combined_relevant_results(args))
  /\ UNCHANGED <<args, jobVars, keyVars>>

(* ================ services.py: process_and_save_pdf ==================== *)
\* the cleaned text of narrative page p: PageChars letters of its own
PageText(p) ==
  LET letters == <<"a", "b", "c", "d", "e", "f", "g", "h", "i", "j", "k", "l", "m",
                   "n", "o", "p", "q", "r", "s", "t", "u", "v", "w", "x", "y", "z">>
  IN [k \in 1..PageChars |-> letters[(((p - 1) * PageChars + k - 1) % 26) + 1]]

\* services.py 587-595, 657-665: the fragments of the buffered text, filed
\* under page_number
TextChunks(text_buffer, page_number) ==
  LET text_chunks == semantic_sliding_window_chunker(text_buffer, DefaultChunkSize,
                                                     DefaultOverlap)
  IN [i \in 1..Len(text_chunks) |->
        [page_number |-> page_number, content |-> text_chunks[i].content, type |-> "text"]]

\* services.py 408-424, 449-462: the reason _detect_table_page gives for a
\* page.  A page without extractable text ("image") has fewer than 50
\* characters and is excluded at 422 like a navigation page; no path returns
\* "image_only_page".
detect_table_page(page) ==
  IF page \in {"excluded", "image"} THEN "excluded_page"
  ELSE IF page = "table" THEN "table_with_structure"
  ELSE "no_keyword_and_no_structure"

\* services.py 552-669: the page loop from page_num on and the final flush.
\* s holds the committed rows and the run's text_buffer and buffer_start_page;
\* halt is the page before which the run ends early and the status it
\* returns then (page 0: the run is not interrupted).
RECURSIVE PageLoop(_, _, _, _)
PageLoop(pages, s, page_num, halt) ==
  IF page_num > Len(pages)
  THEN [chunks |-> IF s.text_buffer # <<>>
                   THEN s.chunks \o TextChunks(s.text_buffer, Len(pages))
                   ELSE s.chunks,
        document |-> s.document, status |-> "success"]
  ELSE IF page_num = halt.page
  THEN [chunks |-> s.chunks, document |-> s.document, status |-> halt.status]
  ELSE IF detect_table_page(pages[page_num]) = "excluded_page"
  THEN PageLoop(pages, s, page_num + 1, halt)
  ELSE IF \/ detect_table_page(pages[page_num]) = "table_with_structure"
          \/ detect_table_page(pages[page_num]) = "image_only_page"
  THEN PageLoop(pages,
                [s EXCEPT !.document = TRUE,
                          !.chunks = (IF s.text_buffer # <<>>
                                      THEN @ \o TextChunks(s.text_buffer, s.buffer_start_page)
                                      ELSE @)
                                     \o <<[page_number |-> page_num, content |-> <<"#">>,
                                           type |-> IF pages[page_num] = "table"
                                                    THEN "table" ELSE "image"]>>,
                          !.text_buffer = <<>>,
                          !.buffer_start_page = page_num + 1],
                page_num + 1, halt)
  ELSE LET text_buffer == s.text_buffer \o <<" ">> \o PageText(page_num)
           text_chunks == TextChunks(text_buffer, page_num)
           n == Len(text_chunks)
       IN IF Len(text_buffer) > BufferLimit /\ n > 0
          THEN PageLoop(pages,
                        [s EXCEPT !.document = TRUE,
                                  !.chunks = @ \o SubSeq(text_chunks, 1, n - 1),
                                  !.text_buffer = text_chunks[n].content],
                        page_num + 1, halt)
          ELSE PageLoop(pages, [s EXCEPT !.document = TRUE, !.text_buffer = text_buffer],
                        page_num + 1, halt)

\* process_and_save_pdf consulting the job only after the page's work
process_and_save_pdf_PollAfterPage(pages, db, halt) ==
  LET last_page == IF db.chunks = <<>> THEN 0
                   ELSE CHOOSE p \in 0..Len(pages) :
                          /\ \E i \in 1..Len(db.chunks) : db.chunks[i].page_number = p
                          /\ \A i \in 1..Len(db.chunks) : db.chunks[i].page_number <= p
  IN PageLoop(pages,
              [chunks |-> db.chunks, document |-> db.document, text_buffer |-> <<>>,
               buffer_start_page |-> last_page + 1],
              last_page + 1,
              [halt EXCEPT !.page = IF @ = 0 THEN 0 ELSE @ + 1])

\* services.py 493-669: one run over the file with these pages on the
\* committed rows db; the content hash finds the document row
process_and_save_pdf(pages, db, halt) ==
  LET last_page == IF db.chunks = <<>> THEN 0
                   ELSE CHOOSE p \in 0..Len(pages) :
                          /\ \E i \in 1..Len(db.chunks) : db.chunks[i].page_number = p
                          /\ \A i \in 1..Len(db.chunks) : db.chunks[i].page_number <= p
  IN IF db.document /\ last_page >= Len(pages) /\ db.chunks # <<>>
     THEN [chunks |-> db.chunks, document |-> db.document, status |-> "skipped"]
     ELSE PageLoop(pages,
                   [chunks |-> db.chunks, document |-> db.document, text_buffer |-> <<>>,
                    buffer_start_page |-> last_page + 1],
                   last_page + 1, halt)

\* any file of table pages, narrative pages, navigation pages ("excluded")
\* and pages without extractable text ("image"), nothing of it stored yet
IngestInit ==
  /\ args \in [fn : {"process_and_save_pdf"},
               pages : UNION {[1..n -> {"table", "text", "excluded", "image"}] :
                                n \in 1..MaxDocPages}]
  /\ ret = [done |-> FALSE,
            value |-> [chunks |-> <<>>, document |-> FALSE, status |-> "none", runs |-> 0]]

\* one run of process_and_save_pdf on the file, to its end or until a stop
\* request or an error before one of its pages
process_and_save_pdf_call ==
  /\ args.fn = "process_and_save_pdf"
  /\ ret.value.runs < MaxRuns
  /\ \E halt \in [page : 0..Len(args.pages), status : {"stopped", "error"}] :
       LET result == process_and_save_pdf(args.pages, ret.value, halt)
       IN ret' = Return([chunks |-> result.chunks, document |-> result.document,
                         status |-> result.status, runs |-> ret.value.runs + 1])
  /\ UNCHANGED <<args, jobVars, keyVars>>

(* ============ models.py / vector_db.py: fragment embedding ============= *)
\* A DocumentChunk row and its ChromaDB entry.  An embedding is named by the
\* text it was computed from; "none" is NULL, respectively no entry.
\* models.py 288-306: before_insert / before_update.  content_changed is the
\* attribute history of chunk_content; answer is what EmbeddingService.generate
\* returns for the text: its vector ("vector") or None on any failure
generate_chunk_embedding_listener(target, content_changed, answer) ==
  IF ~content_changed THEN target.embedding
  ELSE IF target.chunk_content = "" THEN target.embedding
  ELSE IF answer = "vector" THEN target.chunk_content
  ELSE target.embedding

\* vector_db.py 91-115: after_insert / after_update; an upsert that raises is
\* logged and leaves the collection as it was
sync_chunk_to_chroma(target, chroma, upsert_raises) ==
  IF target.embedding = "none" THEN chroma
  ELSE IF upsert_raises THEN chroma
  ELSE target.embedding

\* document.py 601-617 (and the reconstruction worker, 1130-1136): both text
\* columns are assigned and the session is committed; the flush runs the two
\* listeners when an attribute of the row changed
update_chunk_content(row, new_content, answer, upsert_raises) ==
  LET target == [row EXCEPT !.reconstructed_content = new_content,
                            !.chunk_content = new_content]
      saved == [target EXCEPT
                  !.embedding = generate_chunk_embedding_listener(
                                  target, new_content # row.chunk_content, answer)]
  IN IF target = row THEN [row EXCEPT !.edits = @ + 1]
     ELSE [saved EXCEPT !.chroma = sync_chunk_to_chroma(saved, row.chroma, upsert_raises),
                        !.edits = @ + 1]

\* a fragment as ingestion stored it: its embedding computed, or left NULL
\* when the provider failed at the insert
ChunkEditInit ==
  /\ args \in [fn : {"update_chunk_content"}, embedded : BOOLEAN, indexed : BOOLEAN]
  /\ ret = [done |-> FALSE,
            value |-> [chunk_content |-> "a",
                       reconstructed_content |-> "none",
                       embedding |-> IF args.embedded THEN "a" ELSE "none",
                       chroma |-> IF args.embedded /\ args.indexed THEN "a" ELSE "none",
                       edits |-> 0]]

\* one committed edit of the fragment's text
update_chunk_content_call ==
  /\ args.fn = "update_chunk_content"
  /\ ret.value.edits < MaxRuns
  /\ \E new_content \in {"a", "b", ""}, answer \in {"vector", "none"},
        upsert_raises \in BOOLEAN :
       ret' = Return(update_chunk_content(ret.value, new_content, answer, upsert_raises))
  /\ UNCHANGED <<args, jobVars, keyVars>>

Init == JobInit /\ KeysOff /\ LibOff

Next ==
  \/ Tick
  \/ \E r \in Requests : ChunkHttp(r)
  \/ \E w \in Workers : ChunkWorker(w)
  \/ \E r \in Requests : ReconHttp(r)
  \/ \E w \in Workers : ReconWorker(w)

Spec == Init /\ [][Next]_vars

InitKeys == JobsOff /\ KeysInit /\ LibOff

NextKeys ==
  \/ \E c \in Callers : GeminiCall(c)
  \/ \E c \in Callers : EmbedCall(c)
  \/ reload_keys
  \/ \E k \in Keys : update_api_key(k)
  \/ KeyTick

SpecKeys == InitKeys /\ [][NextKeys]_vars

\* one call of one library function, on any of the arguments drawn for it
InitLib ==
  /\ JobsOff
  /\ KeysOff
  /\ \/ ChunkerInit
     \/ ContextInit
     \/ RerankInit
     \/ FeedbackInit
     \/ RetrievalInit
     \/ IngestInit
     \/ ChunkEditInit

NextLib ==
  \/ chunker_call
  \/ build_context_call
  \/ rerank_call
  \/ handle_feedback_call
  \/ get_combined_relevant_results_call
  \/ process_and_save_pdf_call
  \/ update_chunk_content_call

SpecLib == InitLib /\ [][NextLib]_vars

(* ===================== job control: properties ========================= *)
\* the step is request r's start handler running to its response
StartStep(r) ==
  \/ start_chunking_job(r) /\ req' = req
  \/ start_chunking_insert(r)
  \/ start_chunking_init(r)
  \/ start_batch_reconstruction(r) /\ req' = req
  \/ start_batch_reconstruction_commit(r)

StartAccepted(r) == StartStep(r) /\ resp'.result = "accepted"

\* the status request r acted on: read earlier by a handler that is between
\* two transactions, the current row otherwise
StartObserved(r) ==
  IF req[r].pc = "rstart" THEN req[r].seen
  ELSE IF req[r].pc = "init" THEN "STUCK"
  ELSE IF req[r].pc = "insert" THEN "ABSENT"
  ELSE IF is_stuck(job) /\ jobKind = "chunking" THEN "STUCK"
  ELSE SeenStatus(job)

\* C1: two start requests that both found the job IDLE are never both
\* accepted: when a start that found IDLE sets RUNNING and spawns its worker,
\* no other start has set the job to RUNNING in the meantime.
C1_StartsSerialized ==
  [][\A r \in Requests :
       (StartAccepted(r) /\ StartObserved(r) = "IDLE") => job.status # "RUNNING"]_vars

\* C2: a start request that finds the job RUNNING with a heartbeat at most
\* JOB_TIMEOUT_MINUTES old is answered already_running and changes neither
\* the job row nor the set of workers.
C2_RunningStartRejected ==
  [][\A r \in Requests :
       ( /\ start_chunking_job(r) \/ start_batch_reconstruction(r)
         /\ job.exists
         /\ job.status = "RUNNING"
         /\ job.last_updated <= JOB_TIMEOUT_MINUTES )
       => /\ resp'.op = "start"
          /\ resp'.result = "already_running"
          /\ job' = job
          /\ worker' = worker]_vars

\* C2 witness: a start was just refused on a RUNNING job whose heartbeat is
\* exactly JOB_TIMEOUT_MINUTES old, with its worker still active
C2_Witness ==
  /\ resp.op = "start"
  /\ resp.result = "already_running"
  /\ job.status = "RUNNING"
  /\ job.last_updated = JOB_TIMEOUT_MINUTES
  /\ ActiveWorkers # {}

\* C3: a start request is accepted only when the job it found was IDLE (or
\* had no row yet) or was a RUNNING job detected as stuck; never when it
\* found STOPPING, COMPLETED or FAILED.
C3_StartOnlyFromIdleOrStuck ==
  [][\A r \in Requests :
       StartAccepted(r) => StartObserved(r) \in {"ABSENT", "IDLE", "STUCK"}]_vars

\* C4: a job that is IDLE, COMPLETED or FAILED is never turned to STOPPING:
\* a stop request is accepted only while the job is RUNNING, and a stop that
\* comes after the worker completed leaves the row as it is.
C4_StopOnlyWhileRunning ==
  [][job.exists /\ job.status \in {"IDLE", "COMPLETED", "FAILED"}
       => job'.status # "STOPPING"]_vars

\* C5: a stop signal is never lost: no step changes the status of a job from
\* STOPPING back to RUNNING.
C5_StopSignalKept ==
  [][job.status = "STOPPING" => job'.status # "RUNNING"]_vars

\* C6: the job is never STOPPING with no worker left to acknowledge the stop.
C6_StoppingHasWorker ==
  job.status = "STOPPING" => ActiveWorkers # {}

\* C7: the status operation of the chunking job reports stuck exactly when
\* the job is RUNNING and its heartbeat is more than JOB_TIMEOUT_MINUTES old.
C7_StuckReported ==
  [][\A r \in Requests :
       get_chunking_job_status(r)
       => /\ resp'.op = "status"
          /\ resp'.stuck = ( /\ job.exists
                             /\ job.status = "RUNNING"
                             /\ job.last_updated > JOB_TIMEOUT_MINUTES )
          /\ resp'.stuck = is_stuck(job)]_vars

\* C7 witness: the status operation has just reported a stuck job
C7_Witness ==
  /\ resp.op = "status"
  /\ resp.stuck
  /\ job.status = "RUNNING"
  /\ job.last_updated = JOB_TIMEOUT_MINUTES + 1

(* ================== credential rotation: properties ==================== *)
\* thread c as its call stands before the step: a call that begins with the
\* step has the history NewCall gives it
Me(c) == IF caller[c].pc = "idle" THEN NewCall(c, "stream") ELSE caller[c]

\* the step ends a call of thread c
Ends(c) ==
  /\ caller'[c].pc = "idle"
  /\ \/ caller[c].pc # "idle"
     \/ /\ calls' = calls + 1
        /\ \A d \in Callers : caller'[d].pc = caller[d].pc

\* the step ends a call of thread c that was answered with nothing but quota
\* errors, and ends it without a provider call of its own
QuotaOnlyEnd(c) ==
  /\ Ends(c)
  /\ Me(c).allquota
  /\ out'.cause \in {"attempts_used", "no_client", "no_url", "rotate_failed"}

\* C8 as stated: a call that begins with the index at the first credential and
\* gets only quota errors, no other call or reload overlapping, has used every
\* credential once in pool order when it ends, and ends in failure.
C8_TriedInOrder ==
  [][\A c \in Callers :
       (QuotaOnlyEnd(c) /\ Me(c).idx0 /\ Me(c).alone)
       => /\ Me(c).sent = PoolOrder
          /\ out'.result \in {"raise", "none"}]_vars

\* C8: a call that begins with the index at the first credential, the client
\* (or url) of that credential and no credential flagged quota-exceeded, and
\* gets only quota errors, no other call or reload overlapping, has used every
\* credential exactly once in pool order when it ends; it ends in failure in
\* the rotation after the last credential's answer, with no further provider
\* call.
C8_FreshPoolTriedInOrder ==
  [][\A c \in Callers :
       (QuotaOnlyEnd(c) /\ Me(c).fresh /\ Me(c).alone)
       => /\ Me(c).sent = PoolOrder
          /\ Len(Me(c).sent) = NumKeys
          /\ out'.result \in {"raise", "none"}
          /\ out'.cause = "rotate_failed"]_vars

\* C8 witness: the only call so far has run through the whole pool of the
\* generation service on quota errors and failed
C8_Witness ==
  /\ service = "gemini"
  /\ calls = 1
  /\ reloads = 0
  /\ \A c \in Callers : caller[c].pc = "idle"
  /\ out.cause = "rotate_failed"
  /\ current_key_index = NumKeys
  /\ \A k \in Keys : key_config[k].quota_exceeded

\* C9: a provider failure whose text says safety or blocked never takes the
\* request into key rotation: no credential is marked quota-exceeded for it,
\* the index is not advanced and the request is not retried.
C9_SafetyNeverRotates ==
  [][\A c \in Callers :
       (gemini_rotate_key_mark(c) \/ gemini_rotate_key_store(c))
       => ~caller[c].safety]_vars

\* C10: when a request found the current credential i exhausted, its rotation
\* leaves the shared index at i + 1, also when another request found the same
\* credential exhausted at the same time.
C10_AdvanceByOne ==
  [][\A c \in Callers :
       ( /\ gemini_rotate_key_store(c) \/ embed_rotate_key_store(c)
         /\ Len(caller[c].sent) > 0
         /\ caller[c].sent[Len(caller[c].sent)] = caller[c].idx )
       => current_key_index' = caller[c].idx + 1]_vars

\* the step is the finalisation of worker w: the file list is exhausted and
\* the worker writes the final status and message (run_pdf_chunking 726-741)
ChunkFinalStep(w) ==
  /\ job.exists
  /\ ~(worker[w].i < worker[w].n)
  /\ run_pdf_chunking_next(w)

\* C18: a chunking worker that gets through its whole file list ends the job
\* COMPLETED whatever the per-file failures and skips were, and when a file
\* failed the final message carries the failure count.
C18_PartialSuccessCompleted ==
  [][\A w \in Workers :
       ChunkFinalStep(w)
       => /\ job'.status = "COMPLETED"
          /\ worker[w].err > 0 => job'.last_error[3] = worker[w].err]_vars

\* C20: the stuck reset is not fenced. A worker that was alive when a start
\* request declared the job stuck goes on as before: when it reaches the end
\* of its file list it writes its own final status and message over the row,
\* whatever run the row belongs to by then.
C20_StaleWorkerStillCommits ==
  [][\A w \in Workers :
       (worker[w].stale /\ ChunkFinalStep(w))
       => /\ job'.status = FinalStatus(worker[w].ok, worker[w].err)
          /\ job'.last_error = FinalMsg(worker[w].ok, worker[w].err, worker[w].skip)]_vars

\* C20 witness: the row is RUNNING for the run of a new worker that is inside
\* its first file, and the processed count that the start had reset to 0 was
\* written afterwards by a worker the stuck reset had declared dead
C20_Witness ==
  /\ job.exists
  /\ job.status = "RUNNING"
  /\ job.processed_items = 1
  /\ \E v, w \in Workers :
       /\ v # w
       /\ worker[v].stale
       /\ worker[v].pc = "next"
       /\ ~worker[w].stale
       /\ worker[w].pc \in {"infile", "page", "pagework"}
       /\ worker[w].i = 1
       /\ worker[w].ok + worker[w].err + worker[w].skip = 0

(* ======================== chunker: properties ========================== *)
\* the text the fragments are cut from
ChunkerText == NormalizeText(args.text)

\* position i of the normalised text lies inside a returned fragment
InFragment(i) ==
  \E k \in 1..Len(ret.value) :
     /\ ret.value[k].from <= i
     /\ i < ret.value[k].to

\* C13 as stated: every character of the whitespace-normalised text lies
\* inside at least one returned fragment.
C13_EveryCharacterCovered ==
  (args.fn = "chunker" /\ ret.done)
  => \A i \in 0..(Len(ChunkerText) - 1) : InFragment(i)

\* C13: every fragment is a piece of the whitespace-normalised text, and every
\* character of that text other than a blank lies inside at least one
\* fragment; a position in no fragment holds a single blank at which a
\* fragment was cut.
C13_EveryNonBlankCovered ==
  (args.fn = "chunker" /\ ret.done)
  => /\ \A k \in 1..Len(ret.value) :
          LET c == ret.value[k]
          IN /\ 0 <= c.from /\ c.from < c.to /\ c.to <= Len(ChunkerText)
             /\ c.content = Slice(ChunkerText, c.from, c.to)
     /\ \A i \in 0..(Len(ChunkerText) - 1) :
          ChunkerText[i + 1] # " " => InFragment(i)

\* C13 witness: a text that normalisation changes, with a blank and a sentence
\* mark left in it, was cut into three fragments or more
C13_Witness ==
  /\ args.fn = "chunker"
  /\ ret.done
  /\ args.overlap > 0
  /\ ChunkerText # args.text
  /\ \E i \in 1..Len(ChunkerText) : ChunkerText[i] = " "
  /\ \E i \in 1..Len(ChunkerText) : ChunkerText[i] \in {".", "?"}
  /\ Len(ret.value) >= 3

(* ====================== build_context: properties ====================== *)
\* C14: for every retrieved fragment on a continuation page the assembled
\* fragment set holds the whole contiguous run around it: backward every
\* stored page up to and including the first one that does not match the
\* marker (or page 1), forward every following page that matches, whatever
\* else was retrieved and in whatever order.
C14_ContinuationRunComplete ==
  (args.fn = "build_context" /\ ret.done)
  => \A i \in 1..Len(args.relevant_items) :
       LET item == args.relevant_items[i]
           p == item.page_number
           run == {q \in DocPages :
                     \/ q = p
                     \/ /\ q < p
                        /\ args.pages[q] # "absent"
                        /\ \A k \in (q + 1)..(p - 1) : args.pages[k] = "lanjutan"
                     \/ /\ q > p
                        /\ \A k \in (p + 1)..q : args.pages[k] = "lanjutan"}
       IN (item.kind = "chunk" /\ args.pages[p] = "lanjutan")
          => run \subseteq ret.value.doc_chunks

\* C14 witness: origin page 1, continuation pages 2 and 3, only page 3
\* retrieved: pages 1, 2 and 3 are assembled
C14_Witness ==
  /\ args.fn = "build_context"
  /\ ret.done
  /\ args.pages[1] = "plain"
  /\ args.pages[2] = "lanjutan"
  /\ args.pages[3] = "lanjutan"
  /\ args.relevant_items = <<[kind |-> "chunk", page_number |-> 3]>>
  /\ ret.value.doc_chunks = {1, 2, 3}

\* C16: with requested years given, every requested year of which no news
\* item was retrieved is named in the context's data-unavailable block, also
\* when nothing at all was retrieved.
C16_MissingYearsFlagged ==
  (args.fn = "build_context" /\ ret.done /\ args.requested_years # {})
  => \A y \in args.requested_years :
       (\A i \in 1..Len(args.relevant_items) :
           ~(args.relevant_items[i].kind = "news" /\ args.relevant_items[i].year = y))
       => y \in ret.value.missing_years

(* ================ reranking and feedback: properties =================== *)
\* C15: with requested years given, of two results with equal distance and
\* equal feedback score, the one whose year is requested comes before the one
\* whose year is not.
C15_RequestedYearFirst ==
  (args.fn = "rerank_with_dss" /\ ret.done /\ args.requested_years # {})
  => \A a, b \in 1..Len(args.results_with_distance) :
       LET A == args.results_with_distance[a]
           B == args.results_with_distance[b]
       IN ( /\ A.distance = B.distance
            /\ FeedbackOf(args.scores, A.item) = FeedbackOf(args.scores, B.item)
            /\ YearOf(A.item.days_ago) \in args.requested_years
            /\ YearOf(B.item.days_ago) \notin args.requested_years )
          => \E i, j \in 1..Len(ret.value) :
               i < j /\ ret.value[i] = A.item /\ ret.value[j] = B.item

\* C19: after feedback on an answer, the score the reranker reads for each of
\* the answer's sources, news item or fragment, is the score of the row the
\* feedback wrote for it, (positive + 1) / (total + 2).
C19_FeedbackScoreRead ==
  (args.fn = "handle_feedback" /\ ret.done)
  => \A i \in 1..Len(args.results_with_distance) :
       LET item == args.results_with_distance[i].item
           ref == SourceRef(item)
           row == CHOOSE r \in ret.value :
                    r.entity_type = ref.type /\ r.entity_id = ref.id
       IN FeedbackOf(ret.value, item) = update_score(row.positive, row.negative)

(* ========================= retrieval: properties ======================= *)
\* C17: in locked mode, when the store holds a fragment of a document whose
\* name contains the target, the result is not empty and holds nothing but
\* fragments of documents whose name contains the target, whatever the
\* embedding step and the vector search returned.
C17_LockedNeverEmpty ==
  ( /\ args.fn = "get_combined_relevant_results"
    /\ ret.done
    /\ args.specific_document
    /\ \E c \in DOMAIN args.chunks : args.chunks[c] \in {"both", "contains_only"} )
  => /\ ret.value # <<>>
     /\ \A i \in 1..Len(ret.value) :
          /\ ret.value[i].kind = "chunk"
          /\ args.chunks[ret.value[i].id] \in {"both", "contains_only"}

(* ========================= ingestion: properties ======================= *)
\* C11: once a run has gone through the file to its end, a further run over
\* the same content that is not interrupted either returns 'skipped' and
\* leaves the stored document and fragments as they are.
C11_ReingestSkipped ==
  [][( /\ args.fn = "process_and_save_pdf"
       /\ ret.value.status \in {"success", "skipped"}
       /\ process_and_save_pdf_call
       /\ ret'.value.status \notin {"stopped", "error"} )
     => /\ ret'.value.status = "skipped"
        /\ ret'.value.chunks = ret.value.chunks
        /\ ret'.value.document = ret.value.document]_vars

\* C12: when the file has been gone through to its end, in one run or in
\* runs that were interrupted and restarted, the stored fragments are those
\* of one uninterrupted run: none is missing and none is there twice.
C12_ResumeEqualsOneRun ==
  (args.fn = "process_and_save_pdf" /\ ret.value.status \in {"success", "skipped"})
  => LET one == process_and_save_pdf(
                  args.pages, [chunks |-> <<>>, document |-> FALSE],
                  [page |-> 0, status |-> "stopped"]).chunks
         got == ret.value.chunks
         Count(l, r) == Cardinality({i \in 1..Len(l) : l[i] = r})
     IN \A r \in {one[i] : i \in 1..Len(one)} \cup {got[i] : i \in 1..Len(got)} :
          Count(one, r) = Count(got, r)

\* C21: a generation request ends with the terminal "all keys have exceeded
\* their quota" failure only when every credential of the pool is flagged
\* quota-exceeded at that moment: a flagged credential met by the rotation is
\* stepped over and a usable one later in the pool is tried first.
C21_FailsOnlyWhenAllExhausted ==
  [][\A c \in Callers :
       ( /\ Ends(c)
         /\ out'.op = "stream"
         /\ out'.result = "raise"
         /\ out'.cause \in {"rotate_failed", "no_client", "attempts_used"} )
       => \A k \in Keys : key_config'[k].quota_exceeded]_vars

\* C22: EmbeddingService.generate issues at most 2 provider calls per
\* credential and at most 2 * N in all, and it leaves a credential for the
\* next one only after a 429 or after that credential's second failure in a
\* row.
C22_BoundedProviderCalls ==
  \A c \in Callers :
    caller[c].op = "embed" =>
      LET sent == caller[c].sent
          n == Len(sent)
      IN /\ n <= retries_per_key * NumKeys
         /\ \A k \in Keys :
              Cardinality({i \in 1..n : sent[i] = k}) <= retries_per_key
         /\ (caller[c].pc = "rotate" /\ caller[c].answer = "transient")
            => (n >= 2 /\ sent[n] = sent[n - 1])

\* C23: a permanent provider failure (a 4xx answer other than 429) ends
\* EmbeddingService.generate for that text at once: no call is still inside
\* its retry loop or in the key rotation with a permanent failure as the
\* answer it is acting on.
C23_PermanentGivesUp ==
  \A c \in Callers :
    caller[c].answer = "permanent" => caller[c].pc \notin {"loop", "rotate", "store"}

\* C24: the quota-exceeded flag of a credential is set exactly when its
\* timestamp is set, in every reachable state; a step clears the flag only
\* when the flag is at least QUOTA_RESET_HOURS old, and every step that
\* consults the credential (_initialize_client on it, update_api_key) clears
\* a flag that old together with its timestamp.
C24_FlagClearsAfterCooldown ==
  /\ [](\A k \in Keys :
          key_config[k].quota_exceeded <=> key_config[k].quota_exceeded_at # NoTime)
  /\ [][\A k \in Keys :
          LET due == /\ key_config[k].quota_exceeded
                     /\ key_config[k].quota_exceeded_at >= QUOTA_RESET_HOURS
              consulted ==
                \/ update_api_key(k)
                \/ reload_keys /\ k = 0
                \/ \E c \in Callers :
                     /\ gemini_rotate_key_store(c)
                     /\ k = caller[c].tmp + 1
                \/ \E c \in Callers :
                     /\ \/ stream_generate_content(c)
                        \/ generate_content(c)
                        \/ gemini_next_attempt(c) /\ caller[c].attempt < NumKeys
                     /\ client = NoClient
                     /\ k = current_key_index
          IN /\ (key_config[k].quota_exceeded /\ ~key_config'[k].quota_exceeded) => due
             /\ (consulted /\ due) => key_config'[k] = FreshConfig]_vars

\* C24 witness: the only call so far flagged the first two credentials; the
\* cooldown passed and the reload consulted the first credential, whose flag
\* and timestamp are cleared, while the second, not consulted, keeps its flag
C24_Witness ==
  /\ service = "gemini"
  /\ calls = 1
  /\ reloads = 1
  /\ \A c \in Callers : caller[c].pc = "idle"
  /\ current_key_index = 0
  /\ client = 0
  /\ key_config[0] = FreshConfig
  /\ key_config[1].quota_exceeded
  /\ key_config[1].quota_exceeded_at = QUOTA_RESET_HOURS

\* C28: when every credential is flagged quota-exceeded and the cooldown of
\* at least one of them has passed, a generation request that begins then
\* calls the provider: it does not fail for want of a client.
C28_RecoversAfterCooldown ==
  [][\A c \in Callers :
       ( /\ stream_generate_content(c) \/ generate_content(c)
         /\ \A k \in Keys : key_config[k].quota_exceeded
         /\ \E k \in Keys : key_config[k].quota_exceeded_at >= QUOTA_RESET_HOURS )
       => ~(caller'[c].pc = "idle" /\ out'.cause = "no_client")]_vars

\* C29: in every reachable state of GeminiService the index lies in
\* 0..NumKeys and a client that is present was built from the credential at
\* current_key_index, the one whose row takes the request statistics and the
\* quota mark.
C29_ClientIsCurrentKey ==
  /\ current_key_index \in 0..NumKeys
  /\ client # NoClient => client = current_key_index

C26_ImageOnlyPageKept ==
  (args.fn = "process_and_save_pdf" /\ ret.value.status = "success") =>
    \A p \in 1..Len(args.pages) :
      args.pages[p] = "image" =>
        Cardinality({i \in 1..Len(ret.value.chunks) :
                       /\ ret.value.chunks[i].page_number = p
                       /\ ret.value.chunks[i].type = "image"}) = 1

\* C27: after every committed edit of a fragment's text the stored embedding
\* is the embedding of the text now stored or NULL, and the vector-index
\* entry is that embedding or absent: an embedding of an earlier text is
\* never kept, whatever the embedding provider answered during the save.
C27_NoStaleEmbedding ==
  (args.fn = "update_chunk_content" /\ ret.value.edits > 0) =>
    /\ ret.value.embedding \in {"none", ret.value.chunk_content}
    /\ ret.value.chroma \in {"none", ret.value.chunk_content}

\* C30: in every reachable state of a batch job, chunking or reconstruction,
\* 0 <= processed_items <= total_items, so get_progress never exceeds 100.
C30_ProgressWithinTotal ==
  /\ 0 <= job.processed_items
  /\ job.processed_items <= job.total_items
  /\ get_progress(job) <= 100

====
